---- MODULE Spec2Model ----
(***************************************************************************)
(* Pipeline orchestration engine of FullAgentMaker.                        *)
(*                                                                         *)
(* The model follows server/agents/AgentOrchestrator.ts, the agents it     *)
(* drives and the in-memory storage (MemStorage).  Node runs every handler *)
(* to its next real suspension: the storage methods are async functions    *)
(* over Maps whose promises are already resolved, so a handler is only     *)
(* interleaved with other requests while it awaits the generation backend  *)
(* (geminiService.generateContent).  One action is therefore one run of    *)
(* the code from an entry point, or from the arrival of a generation       *)
(* response, up to the next generation call or the end of the handler.     *)
(*                                                                         *)
(* MemStorage hands out the stored Project object itself, and              *)
(* updateProjectState stores the AgentState object it is given, so the     *)
(* AgentState objects live in a heap and are shared by reference.          *)
(***************************************************************************)
EXTENDS Integers, Sequences, FiniteSets, Bags, TLC

VARIABLES projects, heap, tasks, events, agentLogs, projectFiles, pauses,
          oplog, wsClients, sockets

vars == <<projects, heap, tasks, events, agentLogs, projectFiles, pauses,
          oplog, wsClients, sockets>>

\* Number of startProject and resumeProject requests explored.
MaxRuns == 2

\* Number of pauseProject requests explored.
MaxPauses == 1

\* The project created by POST /api/projects before the run.
ProjectIds == {"p1"}

NULL == "null"

agentConfigs ==
  << [name |-> "Requirement", dependencies |-> {}],
     [name |-> "Frontend",    dependencies |-> {"Requirement"}],
     [name |-> "Backend",     dependencies |-> {"Requirement"}],
     [name |-> "Validator",   dependencies |-> {"Frontend", "Backend"}],
     [name |-> "Deployment",  dependencies |-> {"Validator"}] >>

AgentNames == {agentConfigs[i].name : i \in 1..Len(agentConfigs)}

\* Position of a stage in agentConfigs.
ConfigIndex(name) == CHOOSE i \in 1..Len(agentConfigs) : agentConfigs[i].name = name

ProjectStatus == {"pending", "running", "paused", "completed", "error"}

Range(s) == {s[i] : i \in 1..Len(s)}

\* The literal every entry point builds for a run without state.
EmptyAgentState ==
  [currentAgent    |-> NULL,
   completedAgents |-> <<>>,
   agentProgress   |-> <<>>,
   agentOutputs    |-> <<>>,
   errors          |-> <<>>]

\* obj[key] = value on a Record<string, _>.
Put(f, key, value) ==
  [k \in DOMAIN f \cup {key} |-> IF k = key THEN value ELSE f[k]]

----------------------------------------------------------------------------
(* MemStorage *)

createProject(config) ==
  [status |-> "pending", state |-> 0, config |-> config]

\* <<project>>, or <<>> for undefined.
getProject(w, id) ==
  IF id \in DOMAIN w.projects THEN <<w.projects[id]>> ELSE <<>>

\* oplog[k] is the order in which call k wrote to the storage and emitted
\* events: one entry for each write and each emit.
record(w, entry) ==
  [w EXCEPT !.oplog[w.self] = Append(@, entry)]

\* updateProjectStatus as an upsert: an unknown id gets a record.
updateProjectStatus_upserts(w, id, status) ==
  LET w1 == record(w, [op |-> "updateProjectStatus", status |-> status])
  IN  IF id \in DOMAIN w.projects
        THEN [w1 EXCEPT !.projects[id].status = status]
        ELSE [w1 EXCEPT !.projects =
                Put(@, id, [status |-> status, state |-> 0,
                            config |-> [backendFeatures |-> FALSE]])]

updateProjectStatus(w, id, status) ==
  LET w1 == record(w, [op |-> "updateProjectStatus", status |-> status])
  IN  IF id \in DOMAIN w.projects
        THEN [w1 EXCEPT !.projects[id].status = status]
        ELSE w1

updateProjectState(w, id, ref) ==
  LET w1 == record(w, [op |-> "updateProjectState",
                       currentAgent |-> w.heap[ref].currentAgent])
  IN  IF id \in DOMAIN w.projects
        THEN [w1 EXCEPT !.projects[id].state = ref]
        ELSE w1

\* agentLogs and projectFiles are Maps keyed by a fresh randomUUID: bags of
\* the rows put into them.
addAgentLog(w, entry) ==
  [w EXCEPT !.agentLogs = @ (+) SetToBag({entry})]

addProjectFile(w, id, path) ==
  [record(w, [op |-> "addProjectFile", path |-> path])
     EXCEPT !.projectFiles = @ (+) SetToBag({[projectId |-> id, path |-> path]})]

RECURSIVE addProjectFiles(_, _, _)
addProjectFiles(w, id, files) ==
  IF files = <<>> THEN w
  ELSE addProjectFiles(addProjectFile(w, id, Head(files)), id, Tail(files))

----------------------------------------------------------------------------
(* EventEmitter and BaseAgent.  The emitter keeps nothing: events[k] is    *)
(* the record of what the k-th startProject / resumeProject call (task k)  *)
(* has emitted so far, in order, and events[0] of what the pauseProject    *)
(* calls emitted.  w.self is the call that is running.                     *)

\* WebSocket.readyState
OPEN == 1
CLOSED == 3

\* ws.send(JSON.stringify({ type, data })) on socket s, if it is open.
send(w, s, type, data) ==
  IF w.sockets[s].readyState = OPEN
    THEN [w EXCEPT !.sockets[s].received = Append(@, Put(data, "type", type))]
    ELSE w

RECURSIVE sendAll(_, _, _, _)
sendAll(w, S, type, data) ==
  IF S = {} THEN w
  ELSE LET s == CHOOSE x \in S : TRUE
       IN  sendAll(send(w, s, type, data), S \ {s}, type, data)

\* The listeners registerRoutes puts on the orchestrator: progress goes to
\* every registered socket, the other four events to the socket registered
\* for the event's project; no other event has a listener.
listeners(w, type, data) ==
  IF type = "progress"
    THEN sendAll(w, {w.wsClients[id] : id \in DOMAIN w.wsClients}, type, data)
  ELSE IF type \in {"log", "agent-started", "agent-completed", "project-completed"}
    THEN IF data.projectId \in DOMAIN w.wsClients
           THEN send(w, w.wsClients[data.projectId], type, data)
           ELSE w
  ELSE w

emit(w, type, payload) ==
  listeners([record(w, Put(Put(payload, "type", type), "op", "emit"))
               EXCEPT !.events[w.self] = Append(@, Put(payload, "type", type))],
            type, payload)

log(w, projectId, agentName, level, message) ==
  LET logEntry == [projectId |-> projectId, agentName |-> agentName,
                   level |-> level, message |-> message]
  IN  emit(addAgentLog(w, logEntry), "log", logEntry)

updateProgress(w, projectId, agentName, progress) ==
  emit(w, "progress", [agent |-> agentName, progress |-> progress])

----------------------------------------------------------------------------
(* GeminiService.generateContent: what a response can be.  The content is  *)
(* kept by the features the agents' parsers look for in it.                *)

PlainContent ==
  [backendKeyword |-> FALSE, criticalIssues |-> FALSE, fixedBlocks |-> FALSE]

Succeeded(content) == [success |-> TRUE, content |-> content, error |-> ""]

GeminiFailure ==
  [success |-> FALSE, content |-> PlainContent, error |-> "Gemini API error"]

\* The responses that make a difference to the agent that asked.
generateContent(agentName) ==
  {GeminiFailure} \cup
  CASE agentName = "Requirement" ->
         {Succeeded([PlainContent EXCEPT !.backendKeyword = b]) : b \in BOOLEAN}
    [] agentName = "Validator" ->
         {Succeeded([PlainContent EXCEPT !.criticalIssues = b]) : b \in BOOLEAN}
    [] OTHER -> {Succeeded(PlainContent)}

\* The responses to ValidatorAgent.generateFixes' call: a failure, or
\* corrected code in a block that names its file.
generateFixesContent ==
  {GeminiFailure, Succeeded([PlainContent EXCEPT !.fixedBlocks = TRUE])}

----------------------------------------------------------------------------
(* The agents.  <Agent>_execute runs execute up to its generation call;    *)
(* <Agent>_response runs it from the response to its return.  Both yield   *)
(* [w, suspended, result]: suspended means the agent awaits a generation   *)
(* call, otherwise result is the AgentResult it returned.                  *)

NoResult == [success |-> FALSE, output |-> NULL, error |-> "", files |-> <<>>]

Success(output, files) ==
  [success |-> TRUE, output |-> output, error |-> "", files |-> files]

Failure(error) ==
  [success |-> FALSE, output |-> NULL, error |-> error, files |-> <<>>]

Awaiting(w) == [w |-> w, suspended |-> TRUE, result |-> NoResult]

Returned(w, result) == [w |-> w, suspended |-> FALSE, result |-> result]

\* The catch block shared by every agent: log the error, return failure.
AgentCatch(w, projectId, agentName, message) ==
  Returned(log(w, projectId, agentName, "error", message), Failure(message))

RequirementAgent_execute(w, projectId, config, previousOutputs) ==
  LET w1 == log(w, projectId, "Requirement", "info", "Starting requirement analysis...")
      w2 == updateProgress(w1, projectId, "Requirement", 10)
      w3 == updateProgress(w2, projectId, "Requirement", 50)
  IN  Awaiting(w3)

RequirementAgent_response(w, projectId, config, response) ==
  IF ~response.success
    THEN AgentCatch(w, projectId, "Requirement", response.error)
    ELSE LET w1 == updateProgress(w, projectId, "Requirement", 80)
             w2 == log(w1, projectId, "Requirement", "success",
                       "Requirements analysis completed successfully")
             w3 == updateProgress(w2, projectId, "Requirement", 100)
         IN  Returned(w3, Success([specification |-> response.content,
                                   config |-> config], <<>>))

\* FrontendAgent.parseCodeIntoFiles on a response without code blocks:
\* addEssentialFiles supplies App.tsx and package.json.
FrontendAgent_parseCodeIntoFiles(content) == <<"/src/App.tsx", "/package.json">>

FrontendAgent_execute(w, projectId, config, previousOutputs) ==
  LET w1 == log(w, projectId, "Frontend", "info", "Starting frontend development...")
      w2 == updateProgress(w1, projectId, "Frontend", 10)
  IN  IF "Requirement" \notin DOMAIN previousOutputs
        THEN AgentCatch(w2, projectId, "Frontend",
                        "Requirements not found from previous agent")
        ELSE Awaiting(updateProgress(w2, projectId, "Frontend", 40))

FrontendAgent_response(w, projectId, config, response) ==
  IF ~response.success
    THEN AgentCatch(w, projectId, "Frontend", response.error)
    ELSE LET files == FrontendAgent_parseCodeIntoFiles(response.content)
             w1 == updateProgress(w, projectId, "Frontend", 70)
             w2 == log(w1, projectId, "Frontend", "success",
                       "Frontend development completed.")
             w3 == updateProgress(w2, projectId, "Frontend", 100)
         IN  Returned(w3, Success([codeGenerated |-> response.content,
                                   fileCount |-> Len(files)], files))

checkIfBackendNeeded(config, requirements) ==
  config.backendFeatures \/ requirements.specification.backendKeyword

\* BackendAgent.parseCodeIntoFiles on a response without code blocks:
\* addEssentialBackendFiles supplies the server, package.json and .env files.
BackendAgent_parseCodeIntoFiles(content) ==
  <<"/server/index.ts", "/package.json", "/.env.example">>

BackendAgent_execute(w, projectId, config, previousOutputs) ==
  LET w1 == log(w, projectId, "Backend", "info", "Starting backend development...")
      w2 == updateProgress(w1, projectId, "Backend", 10)
  IN  IF "Requirement" \notin DOMAIN previousOutputs
        THEN AgentCatch(w2, projectId, "Backend",
                        "Requirements not found from previous agent")
      ELSE IF ~checkIfBackendNeeded(config, previousOutputs["Requirement"])
        THEN Returned(log(w2, projectId, "Backend", "info",
                          "Backend not required for this project type"),
                      Success([type |-> "frontend-only",
                               message |-> "No backend required"], <<>>))
        ELSE Awaiting(updateProgress(w2, projectId, "Backend", 40))

BackendAgent_response(w, projectId, config, response) ==
  IF ~response.success
    THEN AgentCatch(w, projectId, "Backend", response.error)
    ELSE LET files == BackendAgent_parseCodeIntoFiles(response.content)
             w1 == updateProgress(w, projectId, "Backend", 70)
             w2 == log(w1, projectId, "Backend", "success",
                       "Backend development completed.")
             w3 == updateProgress(w2, projectId, "Backend", 100)
         IN  Returned(w3, Success([type |-> "backend",
                                   codeGenerated |-> response.content,
                                   fileCount |-> Len(files)], files))

\* ValidatorAgent.execute that also insists on generated backend code.
ValidatorAgent_execute_needsBackendCode(w, projectId, config, previousOutputs) ==
  LET w1 == log(w, projectId, "Validator", "info", "Starting code validation...")
      w2 == updateProgress(w1, projectId, "Validator", 10)
  IN  IF "Frontend" \notin DOMAIN previousOutputs
        THEN AgentCatch(w2, projectId, "Validator",
                        "Frontend output not found from previous agent")
      ELSE IF \/ "Backend" \notin DOMAIN previousOutputs
              \/ "codeGenerated" \notin DOMAIN previousOutputs["Backend"]
        THEN AgentCatch(w2, projectId, "Validator",
                        "Backend output not found from previous agent")
        ELSE Awaiting(updateProgress(w2, projectId, "Validator", 30))

ValidatorAgent_execute(w, projectId, config, previousOutputs) ==
  LET w1 == log(w, projectId, "Validator", "info", "Starting code validation...")
      w2 == updateProgress(w1, projectId, "Validator", 10)
  IN  IF "Frontend" \notin DOMAIN previousOutputs
        THEN AgentCatch(w2, projectId, "Validator",
                        "Frontend output not found from previous agent")
        ELSE Awaiting(updateProgress(w2, projectId, "Validator", 30))

\* From the validation report to the return, or to generateFixes' call.
ValidatorAgent_response(w, projectId, config, response) ==
  IF ~response.success
    THEN AgentCatch(w, projectId, "Validator", response.error)
    ELSE LET w1 == updateProgress(w, projectId, "Validator", 70)
         IN  IF response.content.criticalIssues
               THEN Awaiting(log(w1, projectId, "Validator", "warn",
                                 "Found critical issues that need fixing"))
               ELSE LET w2 == log(w1, projectId, "Validator", "success",
                                  "Code validation passed - no critical issues found")
                        w3 == updateProgress(w2, projectId, "Validator", 100)
                    IN  Returned(w3, Success([criticalIssues |-> FALSE,
                                              isProductionReady |-> TRUE], <<>>))

ValidatorAgent_parseFixedFiles(content) ==
  IF content.fixedBlocks THEN <<"/src/fixed/Fixed1.tsx">> ELSE <<>>

\* generateFixes returns [] when its call fails.
ValidatorAgent_generateFixes(response) ==
  IF response.success THEN ValidatorAgent_parseFixedFiles(response.content)
                      ELSE <<>>

\* From generateFixes' response to the return.
ValidatorAgent_fixes(w, projectId, config, response) ==
  LET fixes == ValidatorAgent_generateFixes(response)
      w1 == updateProgress(w, projectId, "Validator", 90)
      w2 == log(w1, projectId, "Validator", "success",
                "Code validation completed with fixes applied")
  IN  Returned(w2, Success([criticalIssues |-> TRUE, fixes |-> fixes,
                            isProductionReady |-> FALSE], fixes))

\* DeploymentAgent is imported from ./DeploymentAgent: a stage that packages
\* the project with one generation call, as the stage contract describes.
DeploymentAgent_execute(w, projectId, config, previousOutputs) ==
  Awaiting(log(w, projectId, "Deployment", "info", "Starting deployment packaging..."))

DeploymentAgent_response(w, projectId, config, response) ==
  IF ~response.success
    THEN AgentCatch(w, projectId, "Deployment", response.error)
    ELSE Returned(log(w, projectId, "Deployment", "success", "Deployment package ready"),
                  Success([packaged |-> TRUE], <<"/README.md">>))

\* this.agents.get(name).execute(projectId, config, previousOutputs)
execute(agentName, w, projectId, config, previousOutputs) ==
  CASE agentName = "Requirement" -> RequirementAgent_execute(w, projectId, config, previousOutputs)
    [] agentName = "Frontend"    -> FrontendAgent_execute(w, projectId, config, previousOutputs)
    [] agentName = "Backend"     -> BackendAgent_execute(w, projectId, config, previousOutputs)
    [] agentName = "Validator"   -> ValidatorAgent_execute(w, projectId, config, previousOutputs)
    [] agentName = "Deployment"  -> DeploymentAgent_execute(w, projectId, config, previousOutputs)

onResponse(agentName, w, projectId, config, response) ==
  CASE agentName = "Requirement" -> RequirementAgent_response(w, projectId, config, response)
    [] agentName = "Frontend"    -> FrontendAgent_response(w, projectId, config, response)
    [] agentName = "Backend"     -> BackendAgent_response(w, projectId, config, response)
    [] agentName = "Validator"   -> ValidatorAgent_response(w, projectId, config, response)
    [] agentName = "Deployment"  -> DeploymentAgent_response(w, projectId, config, response)

----------------------------------------------------------------------------
(* AgentOrchestrator.  A task is one call of startProject or resumeProject *)
(* that entered executeAgentPipeline: op is the entry point, state the     *)
(* AgentState object its loop works on, idx its position in agentConfigs,  *)
(* pc what it awaits ("generate", "fixes") or how its promise settled      *)
(* ("resolved", "rejected"), trace the execute calls it made and returned  *)
(* the files of the results that reported success.  A call for an unknown  *)
(* project settles at once and has no state (0).                           *)

World(self) ==
  [projects |-> projects, heap |-> heap, agentLogs |-> agentLogs,
   projectFiles |-> projectFiles, self |-> self,
   wsClients |-> wsClients, sockets |-> sockets,
   events |-> [k \in DOMAIN events \cup {self} |->
                 IF k \in DOMAIN events THEN events[k] ELSE <<>>],
   oplog |-> [k \in DOMAIN oplog \cup {self} |->
                IF k \in DOMAIN oplog THEN oplog[k] ELSE <<>>]]

NewTask(op, projectId, ref) ==
  [op |-> op, projectId |-> projectId, state |-> ref, idx |-> 1,
   pc |-> "resolved", trace |-> <<>>, returned |-> <<>>]

SetLast(trace, result) == [trace EXCEPT ![Len(trace)].result = result]

\* startProject's catch block (lines 95-99).
startProject_catch(w, projectId, message) ==
  emit(updateProjectStatus(w, projectId, "error"),
       "project-error", [projectId |-> projectId, error |-> message])

\* An error leaving executeAgentPipeline: startProject catches it,
\* resumeProject's promise rejects and the route only logs it.
Throw(w, t, message) ==
  IF t.op = "start"
    THEN [w |-> startProject_catch(w, t.projectId, message),
          t |-> [t EXCEPT !.pc = "resolved"]]
    ELSE [w |-> w, t |-> [t EXCEPT !.pc = "rejected"]]

\* dependenciesMet with some in place of every.
dependenciesMet_some(agentConfig, state) ==
  \E dep \in agentConfig.dependencies : dep \in Range(state.completedAgents)

dependenciesMet(agentConfig, state) ==
  \A dep \in agentConfig.dependencies : dep \in Range(state.completedAgents)

RECURSIVE executeAgentPipeline(_, _, _)
RECURSIVE handleResult(_, _, _, _)

\* handleSuccess without line 144: the output is not recorded.
handleSuccess_noOutput(w, t, i, result) ==
  LET name == agentConfigs[i].name
      w1 == [w EXCEPT !.heap[t.state] =
               [@ EXCEPT !.completedAgents = Append(@, name),
                         !.agentProgress = Put(@, name, 100)]]
      w2 == addProjectFiles(w1, t.projectId, result.files)
      w3 == emit(w2, "agent-completed", [projectId |-> t.projectId, agent |-> name])
      w4 == [w3 EXCEPT !.heap[t.state].currentAgent = NULL]
  IN  updateProjectState(w4, t.projectId, t.state)

\* handleSuccess with the push of line 143 made twice.
handleSuccess_pushesTwice(w, t, i, result) ==
  LET name == agentConfigs[i].name
      w1 == [w EXCEPT !.heap[t.state] =
               [@ EXCEPT !.completedAgents = Append(Append(@, name), name),
                         !.agentOutputs = Put(@, name, result.output),
                         !.agentProgress = Put(@, name, 100)]]
      w2 == addProjectFiles(w1, t.projectId, result.files)
      w3 == emit(w2, "agent-completed", [projectId |-> t.projectId, agent |-> name])
      w4 == [w3 EXCEPT !.heap[t.state].currentAgent = NULL]
  IN  updateProjectState(w4, t.projectId, t.state)

\* handleSuccess that stores the files only of a stage completed for the
\* first time, as a store keyed by path would.
handleSuccess_storesOncePerStage(w, t, i, result) ==
  LET name == agentConfigs[i].name
      first == name \notin Range(w.heap[t.state].completedAgents)
      w1 == [w EXCEPT !.heap[t.state] =
               [@ EXCEPT !.completedAgents = Append(@, name),
                         !.agentOutputs = Put(@, name, result.output),
                         !.agentProgress = Put(@, name, 100)]]
      w2 == IF first THEN addProjectFiles(w1, t.projectId, result.files) ELSE w1
      w3 == emit(w2, "agent-completed", [projectId |-> t.projectId, agent |-> name])
      w4 == [w3 EXCEPT !.heap[t.state].currentAgent = NULL]
  IN  updateProjectState(w4, t.projectId, t.state)

\* handleSuccess that announces the completion before it stores the files.
handleSuccess_emitsBeforeFiles(w, t, i, result) ==
  LET name == agentConfigs[i].name
      w1 == [w EXCEPT !.heap[t.state] =
               [@ EXCEPT !.completedAgents = Append(@, name),
                         !.agentOutputs = Put(@, name, result.output),
                         !.agentProgress = Put(@, name, 100)]]
      w2 == emit(w1, "agent-completed", [projectId |-> t.projectId, agent |-> name])
      w3 == addProjectFiles(w2, t.projectId, result.files)
      w4 == [w3 EXCEPT !.heap[t.state].currentAgent = NULL]
  IN  updateProjectState(w4, t.projectId, t.state)

\* Lines 142-160 and 181-182: the agent returned success.
handleSuccess(w, t, i, result) ==
  LET name == agentConfigs[i].name
      w1 == [w EXCEPT !.heap[t.state] =
               [@ EXCEPT !.completedAgents = Append(@, name),
                         !.agentOutputs = Put(@, name, result.output),
                         !.agentProgress = Put(@, name, 100)]]
      w2 == addProjectFiles(w1, t.projectId, result.files)
      w3 == emit(w2, "agent-completed", [projectId |-> t.projectId, agent |-> name])
      w4 == [w3 EXCEPT !.heap[t.state].currentAgent = NULL]
  IN  updateProjectState(w4, t.projectId, t.state)

\* handleFailure with the push of line 143 made before result.success is
\* looked at: the failed stage is in completedAgents.
handleFailure_marksCompleted(w, t, i, result, message) ==
  LET name == agentConfigs[i].name
      w1 == [w EXCEPT !.heap[t.state] =
               [@ EXCEPT !.completedAgents = Append(@, name),
                         !.errors = Append(Append(@,
                                      [agent |-> name, error |-> result.error]),
                                      [agent |-> name, error |-> message])]]
      w2 == updateProjectState(w1, t.projectId, t.state)
  IN  emit(w2, "agent-error",
           [projectId |-> t.projectId, agent |-> name, error |-> message])

\* Lines 161-178: the agent returned failure; the else branch records the
\* error and throws into the catch block, which records it again.
handleFailure(w, t, i, result, message) ==
  LET name == agentConfigs[i].name
      w1 == [w EXCEPT !.heap[t.state].errors =
               Append(@, [agent |-> name, error |-> result.error])]
      w2 == [w1 EXCEPT !.heap[t.state].errors =
               Append(@, [agent |-> name, error |-> message])]
      w3 == updateProjectState(w2, t.projectId, t.state)
  IN  emit(w3, "agent-error",
           [projectId |-> t.projectId, agent |-> name, error |-> message])

\* Lines 142-182 when a storage write of the success transition rejects:
\* addProjectFile on the first file of the result (line 150), which lands in
\* the catch block of lines 170-178, or updateProjectState on line 182,
\* outside the try.  The pushes of lines 143-145 were made before the write.
StorageError == "storage write failed"

handleSuccess_writeFails(w, t, i, result, fault) ==
  LET name == agentConfigs[i].name
      w1 == [w EXCEPT !.heap[t.state] =
               [@ EXCEPT !.completedAgents = Append(@, name),
                         !.agentOutputs = Put(@, name, result.output),
                         !.agentProgress = Put(@, name, 100)]]
      t1 == [t EXCEPT !.trace = SetLast(@, "writeFailed")]
  IN  IF fault = "addProjectFile"
        THEN LET w2 == [w1 EXCEPT !.heap[t.state].errors =
                          Append(@, [agent |-> name, error |-> StorageError])]
                 w3 == updateProjectState(w2, t.projectId, t.state)
                 w4 == emit(w3, "agent-error", [projectId |-> t.projectId,
                                                agent |-> name,
                                                error |-> StorageError])
             IN  Throw(w4, t1, StorageError)
        ELSE LET w2 == addProjectFiles(w1, t.projectId, result.files)
                 w3 == emit(w2, "agent-completed",
                            [projectId |-> t.projectId, agent |-> name])
                 w4 == [w3 EXCEPT !.heap[t.state].currentAgent = NULL]
             IN  Throw(w4, t1, StorageError)

\* handleResult without the test of line 142: every result is recorded as
\* a completion and the loop goes on.
handleResult_ignoresSuccessFlag(w, t, i, result) ==
  executeAgentPipeline(handleSuccess(w, t, i, result),
                       [t EXCEPT !.trace =
                          SetLast(@, IF result.success THEN "success" ELSE "failure")],
                       i + 1)

\* Lines 139-182: what the loop does with the agent's result.
handleResult(w, t, i, result) ==
  IF result.success
    THEN executeAgentPipeline(handleSuccess(w, t, i, result),
                              [t EXCEPT !.trace = SetLast(@, "success"),
                                        !.returned = @ \o result.files],
                              i + 1)
    ELSE LET message == "Agent " \o agentConfigs[i].name \o " failed: " \o result.error
         IN  Throw(handleFailure(w, t, i, result, message),
                   [t EXCEPT !.trace = SetLast(@, "failure")], message)

\* The loop without the test of line 113: completed stages are run again.
executeAgentPipeline_noSkip(w, t, i) ==
  IF i > Len(agentConfigs)
    THEN [w |-> emit(updateProjectStatus(w, t.projectId, "completed"),
                     "project-completed", [projectId |-> t.projectId]),
          t |-> [t EXCEPT !.pc = "resolved", !.idx = i]]
  ELSE LET agentConfig == agentConfigs[i]
           w1 == [w EXCEPT !.heap[t.state].currentAgent = agentConfig.name]
           w2 == updateProjectState(w1, t.projectId, t.state)
           w3 == emit(w2, "agent-started",
                      [projectId |-> t.projectId, agent |-> agentConfig.name])
           t1 == [t EXCEPT !.idx = i,
                           !.trace = Append(@, [agent |-> agentConfig.name,
                                                result |-> "pending"])]
           r  == execute(agentConfig.name, w3, t.projectId,
                         w3.projects[t.projectId].config,
                         w3.heap[t.state].agentOutputs)
       IN  IF r.suspended
             THEN [w |-> r.w, t |-> [t1 EXCEPT !.pc = "generate"]]
             ELSE handleResult(r.w, t1, i, r.result)

\* The for loop of lines 111-183 from position i, and lines 185-187.
executeAgentPipeline(w, t, i) ==
  IF i > Len(agentConfigs)
    THEN [w |-> emit(updateProjectStatus(w, t.projectId, "completed"),
                     "project-completed", [projectId |-> t.projectId]),
          t |-> [t EXCEPT !.pc = "resolved", !.idx = i]]
  ELSE LET agentConfig == agentConfigs[i]
           state == w.heap[t.state]
       IN  IF agentConfig.name \in Range(state.completedAgents)
             THEN executeAgentPipeline(w, t, i + 1)
           ELSE IF ~dependenciesMet(agentConfig, state)
             THEN Throw(w, [t EXCEPT !.idx = i],
                        "Agent " \o agentConfig.name \o " dependencies not met")
           ELSE LET w1 == [w EXCEPT !.heap[t.state].currentAgent = agentConfig.name]
                    w2 == updateProjectState(w1, t.projectId, t.state)
                    w3 == emit(w2, "agent-started",
                               [projectId |-> t.projectId, agent |-> agentConfig.name])
                    t1 == [t EXCEPT !.idx = i,
                                    !.trace = Append(@, [agent |-> agentConfig.name,
                                                         result |-> "pending"])]
                    r  == execute(agentConfig.name, w3, t.projectId,
                                  w3.projects[t.projectId].config,
                                  w3.heap[t.state].agentOutputs)
                IN  IF r.suspended
                      THEN [w |-> r.w, t |-> [t1 EXCEPT !.pc = "generate"]]
                      ELSE handleResult(r.w, t1, i, r.result)

\* startProject over a getProject that hands out a copy of the record: the
\* loop reads the state the project had on line 75 (project.state || {...}).
startProject_staleProject(w, projectId) ==
  IF getProject(w, projectId) = <<>>
    THEN [w |-> startProject_catch(w, projectId, "Project not found"),
          t |-> [NewTask("start", projectId, 0) EXCEPT !.pc = "resolved"]]
    ELSE LET project == getProject(w, projectId)[1]
             w1 == updateProjectStatus(w, projectId, "running")
             w2 == [w1 EXCEPT !.heap = Append(Append(@, EmptyAgentState),
                                              EmptyAgentState)]
             w3 == updateProjectState(w2, projectId, Len(w1.heap) + 1)
             w4 == emit(w3, "project-started", [projectId |-> projectId])
             ref == IF project.state = 0 THEN Len(w1.heap) + 2 ELSE project.state
         IN  executeAgentPipeline(w4, NewTask("start", projectId, ref), 1)

\* startProject (lines 73-100).  The project of line 75 is the stored record
\* itself, so the project.state the loop reads on line 103 is the state
\* stored on line 90.
startProject(w, projectId) ==
  IF getProject(w, projectId) = <<>>
    THEN [w |-> startProject_catch(w, projectId, "Project not found"),
          t |-> [NewTask("start", projectId, 0) EXCEPT !.pc = "resolved"]]
    ELSE LET w1 == updateProjectStatus(w, projectId, "running")
             ref == Len(w1.heap) + 1
             w2 == [w1 EXCEPT !.heap = Append(@, EmptyAgentState)]
             w3 == updateProjectState(w2, projectId, ref)
             w4 == emit(w3, "project-started", [projectId |-> projectId])
             r  == executeAgentPipeline(
                     w4, NewTask("start", projectId,
                                 w4.projects[projectId].state), 1)
         IN  r

\* pauseProject that also clears the current stage of the stored state.
pauseProject_clearsCurrentAgent(w, projectId) ==
  LET w1 == updateProjectStatus(w, projectId, "paused")
      stored == IF projectId \in DOMAIN w1.projects
                  THEN w1.projects[projectId].state ELSE 0
      w2 == IF stored = 0 THEN w1
            ELSE [w1 EXCEPT !.heap[stored].currentAgent = NULL]
  IN  emit(w2, "project-paused", [projectId |-> projectId])

\* pauseProject (lines 190-193).
pauseProject(w, projectId) ==
  emit(updateProjectStatus(w, projectId, "paused"),
       "project-paused", [projectId |-> projectId])

\* resumeProject that initialises the state as startProject does.
resumeProject_resetsState(w, projectId) ==
  IF getProject(w, projectId) = <<>>
    THEN [w |-> w, t |-> [NewTask("resume", projectId, 0) EXCEPT !.pc = "rejected"]]
    ELSE LET w1 == updateProjectStatus(w, projectId, "running")
             w2 == emit(w1, "project-resumed", [projectId |-> projectId])
             ref == Len(w2.heap) + 1
             w3 == [w2 EXCEPT !.heap = Append(@, EmptyAgentState)]
             w4 == updateProjectState(w3, projectId, ref)
         IN  executeAgentPipeline(w4, NewTask("resume", projectId, ref), 1)

\* resumeProject (lines 195-206); project.state || {...} of lines 103-109
\* makes a new AgentState object when the project has none.
resumeProject(w, projectId) ==
  IF getProject(w, projectId) = <<>>
    THEN [w |-> w, t |-> [NewTask("resume", projectId, 0) EXCEPT !.pc = "rejected"]]
    ELSE LET w1 == updateProjectStatus(w, projectId, "running")
             w2 == emit(w1, "project-resumed", [projectId |-> projectId])
             stored == w2.projects[projectId].state
             ref == IF stored = 0 THEN Len(w2.heap) + 1 ELSE stored
             w3 == IF stored = 0
                     THEN [w2 EXCEPT !.heap = Append(@, EmptyAgentState)]
                     ELSE w2
             r  == executeAgentPipeline(w3, NewTask("resume", projectId, ref), 1)
         IN  r

----------------------------------------------------------------------------
(* The state machine *)

\* The configuration POST /api/projects stored: no database, no features
\* and no backend keyword in the description, so that whether a backend is
\* needed is decided by the specification the Requirement agent produced.
Configs == {[backendFeatures |-> FALSE]}

Init ==
  /\ \E config \in Configs :
       projects = [id \in ProjectIds |-> createProject(config)]
  /\ heap = <<>>
  /\ tasks = <<>>
  /\ events = [k \in {0} |-> <<>>]
  /\ oplog = [k \in {0} |-> <<>>]
  /\ wsClients = <<>>
  /\ sockets = <<>>
  /\ agentLogs = EmptyBag
  /\ projectFiles = EmptyBag
  /\ pauses = 0

Commit(w) ==
  /\ projects' = w.projects
  /\ heap' = w.heap
  /\ events' = w.events
  /\ agentLogs' = w.agentLogs
  /\ projectFiles' = w.projectFiles
  /\ oplog' = w.oplog
  /\ sockets' = w.sockets
  /\ UNCHANGED wsClients

\* POST /api/projects/:id/start
StartProject(id) ==
  /\ Len(tasks) < MaxRuns
  /\ LET r == startProject(World(Len(tasks) + 1), id)
     IN  /\ Commit(r.w)
         /\ tasks' = Append(tasks, r.t)
  /\ UNCHANGED pauses

\* POST /api/projects/:id/pause
PauseProject(id) ==
  /\ pauses < MaxPauses
  /\ Commit(pauseProject(World(0), id))
  /\ pauses' = pauses + 1
  /\ UNCHANGED tasks

\* POST /api/projects/:id/resume
ResumeProject(id) ==
  /\ Len(tasks) < MaxRuns
  /\ LET r == resumeProject(World(Len(tasks) + 1), id)
     IN  /\ Commit(r.w)
         /\ tasks' = Append(tasks, r.t)
  /\ UNCHANGED pauses

\* The generation call of task k's agent returns.
GenerateContentReturns(k) ==
  /\ tasks[k].pc = "generate"
  /\ \E response \in generateContent(agentConfigs[tasks[k].idx].name) :
       LET t == tasks[k]
           a == onResponse(agentConfigs[t.idx].name, World(k), t.projectId,
                           projects[t.projectId].config, response)
           r == IF a.suspended
                  THEN [w |-> a.w, t |-> [t EXCEPT !.pc = "fixes"]]
                  ELSE handleResult(a.w, t, t.idx, a.result)
       IN  /\ Commit(r.w)
           /\ tasks' = [tasks EXCEPT ![k] = r.t]
  /\ UNCHANGED pauses

\* The generation call of ValidatorAgent.generateFixes returns.
GenerateFixesReturns(k) ==
  /\ tasks[k].pc = "fixes"
  /\ \E response \in generateFixesContent :
       LET t == tasks[k]
           a == ValidatorAgent_fixes(World(k), t.projectId,
                                     projects[t.projectId].config, response)
           r == handleResult(a.w, t, t.idx, a.result)
       IN  /\ Commit(r.w)
           /\ tasks' = [tasks EXCEPT ![k] = r.t]
  /\ UNCHANGED pauses

Next ==
  \/ \E id \in ProjectIds : StartProject(id)
  \/ \E id \in ProjectIds : PauseProject(id)
  \/ \E id \in ProjectIds : ResumeProject(id)
  \/ \E k \in 1..Len(tasks) : GenerateContentReturns(k)
  \/ \E k \in 1..Len(tasks) : GenerateFixesReturns(k)

Spec == Init /\ [][Next]_vars

\* The generation call of task k's agent returns content, the agent returns
\* success, and a storage write of the success transition rejects.
StorageWriteFails(k) ==
  /\ tasks[k].pc = "generate"
  /\ \E response \in generateContent(agentConfigs[tasks[k].idx].name),
        fault \in {"addProjectFile", "updateProjectState"} :
       LET t == tasks[k]
           a == onResponse(agentConfigs[t.idx].name, World(k), t.projectId,
                           projects[t.projectId].config, response)
       IN  /\ ~a.suspended
           /\ a.result.success
           /\ fault = "addProjectFile" => a.result.files # <<>>
           /\ LET r == handleSuccess_writeFails(a.w, t, t.idx, a.result, fault)
              IN  /\ Commit(r.w)
                  /\ tasks' = [tasks EXCEPT ![k] = r.t]
  /\ UNCHANGED pauses

NextStorageFault ==
  \/ Next
  \/ \E k \in 1..Len(tasks) : StorageWriteFails(k)

\* The pipeline over a storage whose writes can reject.
SpecStorageFault == Init /\ [][NextStorageFault]_vars

\* The outputs the agents store (lines 144), one for each stage.
OutputOf(name, config) ==
  CASE name = "Requirement" -> [specification |-> PlainContent, config |-> config]
    [] name = "Frontend"    -> [codeGenerated |-> PlainContent, fileCount |-> 2]
    [] name = "Backend"     -> [type |-> "frontend-only",
                                message |-> "No backend required"]
    [] name = "Validator"   -> [criticalIssues |-> FALSE, isProductionReady |-> TRUE]
    [] name = "Deployment"  -> [packaged |-> TRUE]

\* Every list of declared stages without repetition.
StageLists ==
  {c \in UNION {[1..n -> AgentNames] : n \in 0..Len(agentConfigs)} :
     \A i, j \in 1..Len(c) : c[i] = c[j] => i = j}

\* The stage selection of lines 111-127 as a function of completedAgents:
\* the project is stored with an AgentState whose completedAgents is any
\* list of declared stages, and the loop is entered by resumeProject.
InitSelect ==
  /\ \E config \in Configs, completed \in StageLists :
       /\ projects = [id \in ProjectIds |->
                        [status |-> "paused", state |-> 1, config |-> config]]
       /\ heap = <<[currentAgent    |-> NULL,
                    completedAgents |-> completed,
                    agentProgress   |-> [a \in Range(completed) |-> 100],
                    agentOutputs    |-> [a \in Range(completed) |->
                                           OutputOf(a, config)],
                    errors          |-> <<>>]>>
  /\ tasks = <<>>
  /\ events = [k \in {0} |-> <<>>]
  /\ oplog = [k \in {0} |-> <<>>]
  /\ wsClients = <<>>
  /\ sockets = <<>>
  /\ agentLogs = EmptyBag
  /\ projectFiles = EmptyBag
  /\ pauses = 0

NextSelect == \E id \in ProjectIds : ResumeProject(id)

SpecSelect == InitSelect /\ [][NextSelect]_vars

\* A stage's execute as a function of previousOutputs: the stored
\* AgentState holds an output for any set of stages, and execute is called
\* on its agentOutputs as line 140 calls it.
InitStage ==
  /\ \E config \in Configs, present \in SUBSET AgentNames :
       /\ projects = [id \in ProjectIds |->
                        [status |-> "running", state |-> 1, config |-> config]]
       /\ heap = <<[EmptyAgentState EXCEPT
                      !.agentOutputs = [a \in present |-> OutputOf(a, config)]]>>
  /\ tasks = <<>>
  /\ events = [k \in {0} |-> <<>>]
  /\ oplog = [k \in {0} |-> <<>>]
  /\ wsClients = <<>>
  /\ sockets = <<>>
  /\ agentLogs = EmptyBag
  /\ projectFiles = EmptyBag
  /\ pauses = 0

\* The stages with dependencies whose execute is in FrontendAgent.ts and
\* ValidatorAgent.ts.
StagesWithDependencies == {"Frontend", "Backend", "Validator"}

\* agent.execute(projectId, project.config, state.agentOutputs), up to its
\* generation call or its return.
ExecuteStage(id, name) ==
  /\ Len(tasks) < MaxRuns
  /\ LET k == Len(tasks) + 1
         r == execute(name, World(k), id, projects[id].config,
                      heap[projects[id].state].agentOutputs)
         t == [NewTask("execute", id, projects[id].state) EXCEPT
                 !.idx = ConfigIndex(name),
                 !.pc = IF r.suspended THEN "generate" ELSE "resolved",
                 !.trace = <<[agent |-> name,
                              result |-> IF r.suspended THEN "pending"
                                         ELSE IF r.result.success THEN "success"
                                         ELSE "failure"]>>]
     IN  /\ Commit(r.w)
         /\ tasks' = Append(tasks, t)
  /\ UNCHANGED pauses

NextStage ==
  \E id \in ProjectIds, name \in StagesWithDependencies : ExecuteStage(id, name)

SpecStage == InitStage /\ [][NextStage]_vars

\* An identifier POST /api/projects never handed out.
UnknownIds == {"p0"}

NextUnknownId ==
  \/ Next
  \/ \E id \in UnknownIds : StartProject(id)
  \/ \E id \in UnknownIds : PauseProject(id)
  \/ \E id \in UnknownIds : ResumeProject(id)

\* The pipeline with requests that name a project the storage does not hold.
SpecUnknownId == Init /\ [][NextUnknownId]_vars

\* Number of WebSocket connections explored.
MaxSockets == 2

\* wss.on("connection") for a request with ?projectId=id (lines 187-200).
Connect(id) ==
  /\ Len(sockets) < MaxSockets
  /\ sockets' = Append(sockets, [projectId |-> id, readyState |-> OPEN,
                                 received |-> <<>>])
  /\ wsClients' = Put(wsClients, id, Len(sockets) + 1)
  /\ UNCHANGED <<projects, heap, tasks, events, agentLogs, projectFiles,
                 pauses, oplog>>

\* Socket s closes: ws.on("close") of lines 195-198.
Close(s) ==
  /\ sockets[s].readyState = OPEN
  /\ sockets' = [sockets EXCEPT ![s].readyState = CLOSED]
  /\ wsClients' = [id \in DOMAIN wsClients \ {sockets[s].projectId} |->
                     wsClients[id]]
  /\ UNCHANGED <<projects, heap, tasks, events, agentLogs, projectFiles,
                 pauses, oplog>>

\* One startProject call and its loop, with clients that connect and close.
NextSockets ==
  \/ \E id \in ProjectIds : tasks = <<>> /\ StartProject(id)
  \/ \E k \in 1..Len(tasks) : GenerateContentReturns(k)
  \/ \E k \in 1..Len(tasks) : GenerateFixesReturns(k)
  \/ \E id \in ProjectIds : Connect(id)
  \/ \E s \in 1..Len(sockets) : Close(s)

SpecSockets == Init /\ [][NextSockets]_vars

----------------------------------------------------------------------------
(* Vocabulary of the properties *)

TheProject == "p1"

Status == projects[TheProject].status

InFlight(t) == t.pc \in {"generate", "fixes"}

Settled(t) == t.pc \in {"resolved", "rejected"}

LastResult(t) ==
  IF t.trace = <<>> THEN "none" ELSE t.trace[Len(t.trace)].result

Dependencies(name) ==
  (CHOOSE c \in Range(agentConfigs) : c.name = name).dependencies

\* Task k's pending execute returns failure in this step.
FailsNow(k) ==
  /\ k \in 1..Len(tasks)
  /\ LastResult(tasks[k]) = "pending"
  /\ LastResult(tasks'[k]) = "failure"

\* This step is a startProject (resumeProject) call.
IsCall(op) ==
  /\ Len(tasks') = Len(tasks) + 1
  /\ tasks'[Len(tasks')].op = op

EventsOfType(k, type) ==
  {n \in 1..Len(events[k]) : events[k][n].type = type}

\* Task k's pending execute returns success in this step.
SucceedsNow(k) ==
  /\ k \in 1..Len(tasks)
  /\ LastResult(tasks[k]) = "pending"
  /\ tasks'[k].trace[Len(tasks[k].trace)].result = "success"

\* The stage whose execute task k made last.
LastAgent(t) == t.trace[Len(t.trace)].agent

\* This step is a pauseProject call.
IsPause == pauses' = pauses + 1

----------------------------------------------------------------------------
\* C1: in every AgentState object, a stage is in completedAgents only behind
\* all of its declared dependencies, and only if an execute of that stage on
\* that object returned success.
C1_DependenciesFirst ==
  \A ref \in 1..Len(heap) :
    LET completed == heap[ref].completedAgents
    IN  \A n \in 1..Len(completed) :
          /\ \A dep \in Dependencies(completed[n]) :
               \E m \in 1..(n - 1) : completed[m] = dep
          /\ \E k \in 1..Len(tasks) :
               /\ tasks[k].state = ref
               /\ [agent |-> completed[n], result |-> "success"]
                    \in Range(tasks[k].trace)

\* Two loops that made execute calls share the stored state, in which
\* Validator, which has two dependencies, is completed.
C1_Witness ==
  /\ Len(tasks) = 2
  /\ tasks[1].state = tasks[2].state
  /\ tasks[1].trace # <<>>
  /\ tasks[2].trace # <<>>
  /\ projects[TheProject].state = tasks[1].state
  /\ "Validator" \in Range(heap[projects[TheProject].state].completedAgents)

\* C2: the step in which a stage's execute returns failure leaves the
\* completedAgents of the loop's state as they were and settles the loop,
\* and a settled loop makes no further execute call.
C2_FailureContainment ==
  [][\A k \in 1..Len(tasks) :
       /\ FailsNow(k) =>
            /\ heap'[tasks[k].state].completedAgents
                 = heap[tasks[k].state].completedAgents
            /\ Settled(tasks'[k])
            /\ Len(tasks'[k].trace) = Len(tasks[k].trace)
       /\ Settled(tasks[k]) => tasks'[k].trace = tasks[k].trace]_vars

\* A loop has settled on a failure of Frontend after Requirement completed.
C2_Witness ==
  \E k \in 1..Len(tasks) :
    /\ Settled(tasks[k])
    /\ tasks[k].trace = <<[agent |-> "Requirement", result |-> "success"],
                          [agent |-> "Frontend", result |-> "failure"]>>
    /\ heap[tasks[k].state].completedAgents = <<"Requirement">>

\* Scenario D: one startProject call, Requirement succeeded, Frontend failed.
ScenarioD ==
  /\ Len(tasks) = 1
  /\ pauses = 0
  /\ tasks[1].op = "start"
  /\ tasks[1].trace = <<[agent |-> "Requirement", result |-> "success"],
                        [agent |-> "Frontend", result |-> "failure"]>>

\* C3: after scenario D the status is error, errors holds exactly one entry,
\* which names Frontend, and the loop has ended without executing Backend,
\* Validator or Deployment.
C3_OneErrorEntry ==
  ScenarioD =>
    /\ Status = "error"
    /\ Settled(tasks[1])
    /\ Len(heap[tasks[1].state].errors) = 1
    /\ heap[tasks[1].state].errors[1].agent = "Frontend"

\* C4: the step in which a stage fails records the failure in errors, emits
\* agent-error and project-error, sets the status to error and ends the
\* loop, whichever entry point the loop was entered through.
C4_FailureSurfaced ==
  [][\A k \in 1..Len(tasks) :
       FailsNow(k) =>
         /\ \E e \in Range(heap'[tasks[k].state].errors) :
              e.agent = tasks[k].trace[Len(tasks[k].trace)].agent
         /\ Len(events'[k]) >= 2
         /\ events'[k][Len(events'[k]) - 1].type = "agent-error"
         /\ events'[k][Len(events'[k])].type = "project-error"
         /\ projects'[tasks[k].projectId].status = "error"
         /\ Settled(tasks'[k])]_vars

\* C5: once the status is completed or error no step changes it.
C5_TerminalStatus ==
  [][(Status \in {"completed", "error"}) =>
       (projects'[TheProject].status = Status)]_vars

\* The stored state has every declared stage in completedAgents.
AllCompleted ==
  /\ projects[TheProject].state # 0
  /\ AgentNames \subseteq Range(heap[projects[TheProject].state].completedAgents)

\* C6: resumeProject on a completed run executes no stage, leaves the
\* AgentState objects and the stored state as they are, emits exactly one
\* project-completed event and ends with the status completed.
C6_IdempotentResume ==
  [][(IsCall("resume") /\ Status = "completed" /\ AllCompleted) =>
       LET k == Len(tasks')
       IN  /\ tasks'[k].trace = <<>>
           /\ tasks'[k].pc = "resolved"
           /\ heap' = heap
           /\ projects'[TheProject].state = projects[TheProject].state
           /\ \A j \in 1..Len(tasks) : tasks'[j] = tasks[j]
           /\ events'[k] = <<[type |-> "project-resumed", projectId |-> TheProject],
                             [type |-> "project-completed", projectId |-> TheProject]>>
           /\ projectFiles' = projectFiles
           /\ projects'[TheProject].status = "completed"]_vars

\* A resumeProject call made on the completed run has returned.
C6_Witness ==
  /\ Len(tasks) = 2
  /\ tasks[1].op = "start"
  /\ Len(tasks[1].trace) = Len(agentConfigs)
  /\ tasks[2].op = "resume"
  /\ tasks[2].trace = <<>>
  /\ tasks[2].pc = "resolved"
  /\ Status = "completed"
  /\ AllCompleted

\* C7: startProject on a run that is not pending changes neither the status
\* nor the stored state, and executes no stage.
C7_StartOnlyFromPending ==
  [][(IsCall("start") /\ Status # "pending") =>
       /\ projects' = projects
       /\ heap' = heap
       /\ tasks'[Len(tasks')].trace = <<>>]_vars

\* C8: at most one stage's execute is in flight for the project.
C8_OneStageInFlight ==
  Cardinality({k \in 1..Len(tasks) : InFlight(tasks[k])}) <= 1

\* C9: every AgentState object has an output for exactly the stages in its
\* completedAgents.
C9_OutputsIffCompleted ==
  \A ref \in 1..Len(heap) :
    DOMAIN heap[ref].agentOutputs = Range(heap[ref].completedAgents)

\* The stored state has completed some stages and not others.
C9_Witness ==
  /\ projects[TheProject].state # 0
  /\ LET state == heap[projects[TheProject].state]
     IN  /\ "Backend" \in DOMAIN state.agentOutputs
         /\ "Validator" \notin Range(state.completedAgents)
         /\ state.currentAgent = "Validator"

\* C10: while the status is paused and no startProject or resumeProject call
\* is made, no loop starts a further stage, and the status stays paused
\* unless the stage in flight fails.
C10_PauseHonoured ==
  [][(Status = "paused" /\ Len(tasks') = Len(tasks)) =>
       /\ \A k \in 1..Len(tasks) :
            Len(tasks'[k].trace) = Len(tasks[k].trace)
       /\ \/ projects'[TheProject].status = "paused"
          \/ \E k \in 1..Len(tasks) : FailsNow(k)]_vars

\* C11: a pauseProject call sets the status to paused, emits project-paused
\* and leaves every AgentState object, the stored state reference, the loops
\* and the stored files as they are; whatever the status, the result of a
\* stage in flight is recorded by its loop when it arrives: the stage and its
\* output on success, an errors entry on failure.
C11_PauseIsAnnotation ==
  [][/\ IsPause =>
          /\ heap' = heap
          /\ tasks' = tasks
          /\ projects'[TheProject].state = projects[TheProject].state
          /\ projects'[TheProject].status = "paused"
          /\ events'[0] = Append(events[0], [type |-> "project-paused",
                                              projectId |-> TheProject])
          /\ projectFiles' = projectFiles
     /\ \A k \in 1..Len(tasks) :
          LET name == LastAgent(tasks[k])
              after == heap'[tasks[k].state]
          IN  /\ SucceedsNow(k) =>
                   /\ name \in Range(after.completedAgents)
                   /\ name \in DOMAIN after.agentOutputs
              /\ FailsNow(k) =>
                   \E e \in Range(after.errors) : e.agent = name]_vars

\* A run entered by resumeProject was paused with a stage in flight (the
\* status is still paused), and the stages in flight went on to their
\* results: Requirement is completed and Frontend's failure is in errors.
C11_Witness ==
  /\ Len(tasks) = 1
  /\ pauses = 1
  /\ tasks[1].op = "resume"
  /\ Status = "paused"
  /\ Settled(tasks[1])
  /\ tasks[1].trace = <<[agent |-> "Requirement", result |-> "success"],
                        [agent |-> "Frontend", result |-> "failure"]>>
  /\ heap[tasks[1].state].completedAgents = <<"Requirement">>
  /\ heap[tasks[1].state].currentAgent = "Frontend"

\* The completedAgents a loop of task k finds before this step: those of its
\* AgentState object, or of the stored one for a call made in this step.
CompletedBefore(k) ==
  LET ref == IF k <= Len(tasks) THEN tasks[k].state
             ELSE projects[TheProject].state
  IN  IF ref \in 1..Len(heap) THEN Range(heap[ref].completedAgents) ELSE {}

\* The execute calls task k makes in this step, as positions of its trace.
StartedNow(k) ==
  ((IF k <= Len(tasks) THEN Len(tasks[k].trace) ELSE 0) + 1)
     .. Len(tasks'[k].trace)

\* C12: a loop entered by resumeProject never executes a stage that is in
\* completedAgents, executes its stages in configuration order, each after
\* its dependencies completed, and begins with the first stage of the stored
\* state that is not completed; called after a run that failed at stage S, it
\* executes S first.
C12_ResumeContinues ==
  [][\A k \in 1..Len(tasks') :
       tasks'[k].op = "resume" =>
         LET trace == tasks'[k].trace
         IN  /\ \A n \in StartedNow(k) :
                  /\ trace[n].agent \notin CompletedBefore(k)
                  /\ Dependencies(trace[n].agent)
                       \subseteq Range(heap'[tasks'[k].state].completedAgents)
                  /\ n > 1 => ConfigIndex(trace[n - 1].agent)
                                < ConfigIndex(trace[n].agent)
             /\ (k > Len(tasks) /\ trace # <<>>) =>
                  \A i \in 1..(ConfigIndex(trace[1].agent) - 1) :
                    agentConfigs[i].name \in CompletedBefore(k)
             /\ (k > Len(tasks) /\ k > 1) =>
                  LET failed == tasks[k - 1]
                  IN  (/\ failed.state = projects[TheProject].state
                       /\ Settled(failed)
                       /\ LastResult(failed) = "failure"
                       /\ LastAgent(failed) \notin CompletedBefore(k))
                      => (trace # <<>> /\ trace[1].agent = LastAgent(failed))]_vars

\* The run failed at Frontend; the resumeProject call that followed executed
\* Frontend, Backend, Validator and Deployment and completed the run.
C12_Witness ==
  /\ Len(tasks) = 2
  /\ tasks[1].op = "start"
  /\ tasks[1].trace = <<[agent |-> "Requirement", result |-> "success"],
                        [agent |-> "Frontend", result |-> "failure"]>>
  /\ tasks[2].op = "resume"
  /\ tasks[2].state = tasks[1].state
  /\ [n \in 1..Len(tasks[2].trace) |-> tasks[2].trace[n].agent]
       = <<"Frontend", "Backend", "Validator", "Deployment">>
  /\ tasks[2].pc = "resolved"
  /\ Status = "completed"

\* Scenario A: one startProject call on the pending project, no pause, and
\* the execute of each of the five stages returned success.
ScenarioA ==
  /\ Len(tasks) = 1
  /\ pauses = 0
  /\ tasks[1].op = "start"
  /\ Len(tasks[1].trace) = Len(agentConfigs)
  /\ \A n \in 1..Len(tasks[1].trace) : tasks[1].trace[n].result = "success"

\* C13: after scenario A the status is completed, the stored completedAgents
\* has length 5 and holds each declared stage behind its dependencies, and
\* errors is empty.
C13_ScenarioA ==
  ScenarioA =>
    LET state == heap[projects[TheProject].state]
        completed == state.completedAgents
    IN  /\ Status = "completed"
        /\ tasks[1].pc = "resolved"
        /\ projects[TheProject].state = tasks[1].state
        /\ Len(completed) = 5
        /\ Range(completed) = AgentNames
        /\ \A n \in 1..Len(completed) :
             \A dep \in Dependencies(completed[n]) :
               \E m \in 1..(n - 1) : completed[m] = dep
        /\ state.errors = <<>>

\* Scenario A has run, with a backend generated by the Backend stage.
C13_Witness ==
  /\ ScenarioA
  /\ heap[tasks[1].state].agentOutputs["Backend"].type = "backend"
  /\ EventsOfType(1, "project-completed") # {}

\* C15: when a storage write of a stage's success transition has failed, the
\* stage is neither in completedAgents nor in agentOutputs of the loop's
\* AgentState, which is the stored one.
C15_WriteFailureAborts ==
  [][\A k \in 1..Len(tasks) :
       (LastResult(tasks[k]) = "pending" /\ LastResult(tasks'[k]) = "writeFailed") =>
         LET name == LastAgent(tasks[k])
             after == heap'[tasks[k].state]
         IN  /\ Len(after.completedAgents) = Len(heap[tasks[k].state].completedAgents)
             /\ DOMAIN after.agentOutputs = DOMAIN heap[tasks[k].state].agentOutputs]_vars

RECURSIVE BagOfFiles(_, _)
BagOfFiles(id, files) ==
  IF files = <<>> THEN EmptyBag
  ELSE SetToBag({[projectId |-> id, path |-> Head(files)]})
         (+) BagOfFiles(id, Tail(files))

\* The files returned by the successful executions of the first n calls.
RECURSIVE ReturnedFiles(_)
ReturnedFiles(n) ==
  IF n = 0 THEN EmptyBag
  ELSE ReturnedFiles(n - 1) (+) BagOfFiles(tasks[n].projectId, tasks[n].returned)

\* C16: the stored files are the files that the executions which reported
\* success returned, each file of each such execution stored once and
\* nothing else.
C16_ArtifactAccumulation ==
  projectFiles = ReturnedFiles(Len(tasks))

\* Two loops worked on one AgentState: both completed Frontend, whose files
\* are stored once for each execution, and a stage failed.
C16_Witness ==
  /\ Len(tasks) = 2
  /\ tasks[1].state = tasks[2].state
  /\ \A k \in 1..2 :
       [agent |-> "Frontend", result |-> "success"] \in Range(tasks[k].trace)
  /\ \E k \in 1..2 : LastResult(tasks[k]) = "failure"
  /\ CopiesIn([projectId |-> TheProject, path |-> "/src/App.tsx"], projectFiles) = 2

\* The reference selector: the first declaration, in configuration order,
\* that is not completed and whose dependencies are all completed.
Eligible(completed) ==
  {i \in 1..Len(agentConfigs) :
     /\ agentConfigs[i].name \notin completed
     /\ agentConfigs[i].dependencies \subseteq completed}

NextEligible(completed) ==
  IF Eligible(completed) = {} THEN "none"
  ELSE agentConfigs[CHOOSE i \in Eligible(completed) :
                      \A j \in Eligible(completed) : i <= j].name

\* C17: for every list of declared stages stored as completedAgents, the
\* stage a loop entered on it executes first is the reference selector's
\* choice for the set of its members, and the loop ends without executing
\* anything exactly when the selector has no choice.
C17_SelectionIsReference ==
  [][IsCall("resume") =>
       LET k == Len(tasks')
           chosen == IF tasks'[k].trace = <<>> THEN "none"
                     ELSE tasks'[k].trace[1].agent
       IN  /\ chosen = NextEligible(CompletedBefore(k))
           /\ chosen = "none" => tasks'[k].pc = "resolved"]_vars

\* Two loops were entered on a completedAgents that is not a prefix of the
\* configuration order, and both chose Frontend.
C17_Witness ==
  /\ Len(tasks) = 2
  /\ heap[1].completedAgents = <<"Validator", "Requirement">>
  /\ tasks[1].trace[1].agent = "Frontend"
  /\ tasks[2].trace[1].agent = "Frontend"

\* The output of a Backend stage that found no backend to be needed.
SkippedSentinel == [type |-> "frontend-only", message |-> "No backend required"]

\* The paths only a generating Backend stage returns (Frontend, whose files
\* may be stored in the same step, returns /package.json too).
BackendOnlyPaths ==
  Range(BackendAgent_parseCodeIntoFiles(PlainContent))
    \ Range(FrontendAgent_parseCodeIntoFiles(PlainContent))

\* C18: when a loop calls Backend's execute and the stored requirements and
\* configuration ask for no backend, then in that same step Backend returns
\* success, no Backend file is stored, Backend is in completedAgents with
\* the skipped sentinel as its output and progress 100, and Validator's
\* execute is called with that output in place and reaches its generation
\* call instead of failing.
C18_ScenarioB ==
  [][\A k \in 1..Len(tasks') : \A n \in StartedNow(k) :
       LET t == tasks'[k]
           before == heap[t.state]
           after == heap'[t.state]
       IN  (/\ t.trace[n].agent = "Backend"
            /\ ~checkIfBackendNeeded(projects[t.projectId].config,
                                      before.agentOutputs["Requirement"]))
           => /\ t.trace[n].result = "success"
              /\ "Backend" \in Range(after.completedAgents)
              /\ after.agentOutputs["Backend"] = SkippedSentinel
              /\ after.agentProgress["Backend"] = 100
              /\ \A path \in BackendOnlyPaths :
                   LET file == [projectId |-> t.projectId, path |-> path]
                   IN  CopiesIn(file, projectFiles') = CopiesIn(file, projectFiles)
              /\ Len(t.trace) = n + 1
              /\ t.trace[n + 1] = [agent |-> "Validator", result |-> "pending"]
              /\ t.pc = "generate"
              /\ after.currentAgent = "Validator"]_vars

\* Scenario B has run to its end: Backend was skipped, Validator and
\* Deployment completed after it.
C18_Witness ==
  /\ Len(tasks) = 1
  /\ tasks[1].pc = "resolved"
  /\ Status = "completed"
  /\ heap[tasks[1].state].agentOutputs["Backend"] = SkippedSentinel
  /\ heap[tasks[1].state].completedAgents
       = <<"Requirement", "Frontend", "Backend", "Validator", "Deployment">>
  /\ CopiesIn([projectId |-> TheProject, path |-> "/server/index.ts"],
              projectFiles) = 0

\* C19: when Validator's execute returns, it returns success; its output has
\* isProductionReady = FALSE exactly when it found critical issues; in that
\* case it has made the second generation call and its output has a fixes
\* list that is not empty and is stored as files; and the loop goes on to
\* call Deployment's execute, unless Deployment is completed already.
C19_ScenarioC ==
  [][\A k \in 1..Len(tasks) :
       (/\ LastResult(tasks[k]) = "pending"
        /\ LastAgent(tasks[k]) = "Validator"
        /\ tasks'[k].trace # tasks[k].trace
        /\ LastResult(tasks'[k]) # "failure")
       => LET output == heap'[tasks[k].state].agentOutputs["Validator"]
          IN  /\ SucceedsNow(k)
              /\ output.isProductionReady = ~output.criticalIssues
              /\ output.criticalIssues =>
                   /\ tasks[k].pc = "fixes"
                   /\ output.fixes # <<>>
                   /\ projectFiles' = projectFiles
                        (+) BagOfFiles(tasks[k].projectId, output.fixes)
              /\ \/ /\ LastAgent(tasks'[k]) = "Deployment"
                    /\ tasks'[k].pc = "generate"
                 \/ "Deployment" \in
                      Range(heap'[tasks[k].state].completedAgents)]_vars

\* C20: every event emitted by a call carries a projectId, which is the
\* project the call is about.
C20_EventsCarryProjectId ==
  \A k \in DOMAIN events : \A n \in 1..Len(events[k]) :
    /\ "projectId" \in DOMAIN events[k][n]
    /\ events[k][n].projectId
         = (IF k = 0 THEN TheProject ELSE tasks[k].projectId)

\* The stages whose execute returned success to a loop working on the
\* AgentState ref.
ExecutedOn(ref) ==
  {e.agent : e \in {e \in UNION {Range(tasks[k].trace) :
                                    k \in {j \in 1..Len(tasks) : tasks[j].state = ref}} :
                      e.result = "success"}}

\* C22: a startProject call enters its loop on an AgentState object made by
\* that call, which is the stored one and starts empty, whatever state an
\* earlier run left: the objects of earlier runs are not touched, the loop
\* begins by executing Requirement, and every stage in the new object's
\* completedAgents was executed on that object.
C22_StartFromEmptyState ==
  [][/\ IsCall("start") =>
          LET t == tasks'[Len(tasks')]
          IN  /\ t.state = Len(heap) + 1
              /\ Len(heap') = Len(heap) + 1
              /\ projects'[TheProject].state = t.state
              /\ \A ref \in 1..Len(heap) : heap'[ref] = heap[ref]
              /\ heap'[t.state] = [EmptyAgentState EXCEPT
                                     !.currentAgent = "Requirement"]
              /\ t.trace = <<[agent |-> "Requirement", result |-> "pending"]>>
     /\ \A k \in 1..Len(tasks) :
          tasks[k].op = "start" =>
            Range(heap[tasks[k].state].completedAgents)
              \subseteq ExecutedOn(tasks[k].state)]_vars

\* A second startProject call, made after a run that had completed stages
\* and failed, has executed all five stages again and completed.
C22_Witness ==
  /\ Len(tasks) = 2
  /\ tasks[1].op = "start"
  /\ LastResult(tasks[1]) = "failure"
  /\ heap[tasks[1].state].completedAgents # <<>>
  /\ tasks[2].op = "start"
  /\ tasks[2].state # tasks[1].state
  /\ Len(tasks[2].trace) = Len(agentConfigs)
  /\ tasks[2].pc = "resolved"
  /\ Len(heap[tasks[2].state].completedAgents) = Len(agentConfigs)

\* C23: no stage name occurs twice in the completedAgents of any AgentState.
C23_CompletedAgentsIsSet ==
  \A ref \in 1..Len(heap) :
    LET completed == heap[ref].completedAgents
    IN  \A m, n \in 1..Len(completed) : completed[m] = completed[n] => m = n

\* C24: whenever no execute is in progress for the project, the stored
\* AgentState, if there is one, has currentAgent null.
C24_CurrentAgentNullWhenIdle ==
  (\A k \in 1..Len(tasks) : ~InFlight(tasks[k])) =>
    \/ projects[TheProject].state = 0
    \/ heap[projects[TheProject].state].currentAgent = NULL

\* C25: when execute of a stage with dependencies is called with the output
\* of one of its declared dependencies absent from previousOutputs, it makes
\* no generation call and returns failure, with the reason in its error log.
C25_FailFastOnMissingInput ==
  [][IsCall("execute") =>
       LET k == Len(tasks')
           t == tasks'[k]
           previousOutputs == heap[t.state].agentOutputs
       IN  ~(Dependencies(LastAgent(t)) \subseteq DOMAIN previousOutputs)
           => /\ t.pc = "resolved"
              /\ LastResult(t) = "failure"
              /\ events'[k] # <<>>
              /\ LET last == events'[k][Len(events'[k])]
                 IN  /\ last.type = "log"
                     /\ last.level = "error"
                     /\ last.message # ""]_vars

\* Entries of an operation log.
IsEmit(e, type) == e.op = "emit" /\ e.type = type

\* e was emitted by the execute of stage name (BaseAgent.log, updateProgress).
IsExecuteOf(e, name) ==
  \/ IsEmit(e, "log") /\ e.agentName = name
  \/ IsEmit(e, "progress") /\ e.agent = name

IsExecute(e) == IsEmit(e, "log") \/ IsEmit(e, "progress")

RECURSIVE StoredPaths(_)
StoredPaths(o) ==
  IF o = <<>> THEN <<>>
  ELSE (IF Head(o).op = "addProjectFile" THEN <<Head(o).path>> ELSE <<>>)
         \o StoredPaths(Tail(o))

\* The last agent-started among the first n entries of o, or 0.
RECURSIVE LastStarted(_, _)
LastStarted(o, n) ==
  IF n = 0 THEN 0
  ELSE IF IsEmit(o[n], "agent-started") THEN n
  ELSE LastStarted(o, n - 1)

\* The order of one loop's writes and emits, for every stage S: the state
\* with currentAgent = S is stored right before agent-started(S); S executes
\* after agent-started(S); files are stored after S executed and before
\* agent-completed(S), and they are the files the successful executions
\* returned; the state with currentAgent = null is stored right after
\* agent-completed(S) and not between agent-started(S) and it.  It is told
\* of the entries of o whose positions are in entries.
StageOrder(o, returned, entries) ==
  /\ StoredPaths(o) = returned
  /\ \A n \in entries :
       LET p == LastStarted(o, n - 1)
       IN  /\ IsEmit(o[n], "agent-started") =>
                /\ n > 1
                /\ o[n - 1] = [op |-> "updateProjectState",
                               currentAgent |-> o[n].agent]
           /\ IsExecute(o[n]) =>
                /\ p > 0
                /\ \A m \in (p + 1)..n : IsExecuteOf(o[m], o[p].agent)
           /\ o[n].op = "addProjectFile" =>
                /\ n < Len(o)
                /\ \/ o[n + 1].op = "addProjectFile"
                   \/ IsEmit(o[n + 1], "agent-completed")
           /\ IsEmit(o[n], "agent-completed") =>
                /\ p > 0
                /\ o[p].agent = o[n].agent
                /\ \A m \in (p + 1)..(n - 1) :
                     \/ IsExecuteOf(o[m], o[n].agent)
                     \/ o[m].op = "addProjectFile"
                /\ n < Len(o)
                /\ o[n + 1] = [op |-> "updateProjectState",
                               currentAgent |-> NULL]

\* Call k wrote or emitted in this step.
ActsNow(k) == k \notin DOMAIN oplog \/ oplog'[k] # oplog[k]

\* The positions of the entries call k adds to its log in this step.
NewEntries(k) ==
  ((IF k \in DOMAIN oplog THEN Len(oplog[k]) ELSE 0) + 1) .. Len(oplog'[k])

\* Call k emits project-completed in this step.
CompletesNow(k) ==
  /\ oplog'[k] # <<>>
  /\ IsEmit(oplog'[k][Len(oplog'[k])], "project-completed")
  /\ (k \in DOMAIN oplog => oplog'[k] # oplog[k])

\* agent-completed of every declared stage has been emitted when call k
\* emits project-completed: by call k, or before this step by another call
\* working on the same AgentState.
CompletedAfterAll(k) ==
  \A a \in AgentNames :
    \/ \E n \in 1..Len(oplog'[k]) :
         IsEmit(oplog'[k][n], "agent-completed") /\ oplog'[k][n].agent = a
    \/ \E j \in 1..Len(tasks) :
         /\ j # k
         /\ tasks[j].state = tasks'[k].state
         /\ \E n \in 1..Len(oplog[j]) :
              IsEmit(oplog[j][n], "agent-completed") /\ oplog[j][n].agent = a

\* project-started was emitted before the n-th entry of call k: by an
\* earlier call, or earlier in call k.
StartedBefore(k, n) ==
  \/ \E j \in 1..(k - 1) : \E m \in 1..Len(oplog[j]) :
       IsEmit(oplog[j][m], "project-started")
  \/ \E m \in 1..(n - 1) : IsEmit(oplog[k][m], "project-started")

\* Call k's loop was entered behind the lifecycle event of its entry point.
AnnouncedBefore(k, n) ==
  \E m \in 1..(n - 1) :
    IsEmit(oplog[k][m], IF tasks[k].op = "start" THEN "project-started"
                        ELSE "project-resumed")

\* C26 as stated: every loop keeps the stage order, project-started is
\* emitted before every agent-started, and project-completed only after
\* agent-completed of every declared stage.
C26_LoopOrder ==
  [][\A k \in 1..Len(tasks') :
       ActsNow(k) =>
         /\ StageOrder(oplog'[k], tasks'[k].returned, NewEntries(k))
         /\ \A n \in NewEntries(k) :
              IsEmit(oplog'[k][n], "agent-started") => StartedBefore(k, n)'
         /\ CompletesNow(k) => CompletedAfterAll(k)]_vars

\* C26 amended: as C26, with the lifecycle event of the loop's own entry
\* point (project-started in startProject, project-resumed in
\* resumeProject) in place of project-started.
C26_LoopOrderOfEntryPoint ==
  [][\A k \in 1..Len(tasks') :
       ActsNow(k) =>
         /\ StageOrder(oplog'[k], tasks'[k].returned, NewEntries(k))
         /\ \A n \in NewEntries(k) :
              IsEmit(oplog'[k][n], "agent-started") => AnnouncedBefore(k, n)'
         /\ CompletesNow(k) => CompletedAfterAll(k)]_vars

\* A loop entered by resumeProject on a state shared with a startProject
\* call has emitted project-completed after stages that returned files.
C26_Witness ==
  /\ Len(tasks) = 2
  /\ tasks[1].op = "start"
  /\ tasks[2].op = "resume"
  /\ tasks[2].state = tasks[1].state
  /\ tasks[2].returned # <<>>
  /\ tasks[1].trace # <<>>
  /\ IsEmit(oplog[2][Len(oplog[2])], "project-completed")

\* Task k's call leaves the loop in this step.
SettlesNow(k) ==
  /\ Settled(tasks'[k])
  /\ k \in 1..Len(tasks) => ~Settled(tasks[k])

\* No stage occurs twice among the execute calls of trace.
ExecutedOnce(trace) ==
  \A m, n \in 1..Len(trace) : trace[m].agent = trace[n].agent => m = n

\* C27: a call of startProject or resumeProject that leaves the loop leaves
\* the project with the status completed and every declared stage in the
\* completedAgents of the loop's state, or with the status error, and has
\* executed each declared stage at most once.
C27_LeavesCompletedOrError ==
  [][\A k \in 1..Len(tasks') :
       SettlesNow(k) =>
         /\ \/ /\ projects'[tasks'[k].projectId].status = "completed"
               /\ AgentNames \subseteq Range(heap'[tasks'[k].state].completedAgents)
            \/ projects'[tasks'[k].projectId].status = "error"
         /\ ExecutedOnce(tasks'[k].trace)]_vars

\* C28: whenever the stored status is completed, the stored AgentState has
\* every declared stage in completedAgents, currentAgent null and an output
\* for every declared stage.
C28_CompletedMeansAllDone ==
  Status = "completed" =>
    /\ AllCompleted
    /\ heap[projects[TheProject].state].currentAgent = NULL
    /\ AgentNames \subseteq DOMAIN heap[projects[TheProject].state].agentOutputs

\* This step is a startProject (resumeProject) call for project id.
IsCallOn(op, id) ==
  /\ IsCall(op)
  /\ tasks'[Len(tasks')].projectId = id

\* This step is a pauseProject call for project id.
IsPauseOn(id) ==
  /\ IsPause
  /\ events'[0][Len(events'[0])].projectId = id

\* The step leaves everything the storage holds as it was.
StorageUnchanged ==
  /\ projects' = projects
  /\ heap' = heap
  /\ agentLogs' = agentLogs
  /\ projectFiles' = projectFiles

\* C29: a call that names an unknown project changes nothing the storage
\* holds.  resumeProject rejects without a storage write or an event;
\* startProject emits one project-error event and nothing else and executes
\* no stage; no call creates a project record.
C29_UnknownProjectChangesNothing ==
  [][\A id \in UnknownIds :
       /\ IsCallOn("resume", id) =>
            LET k == Len(tasks')
            IN  /\ tasks'[k].pc = "rejected"
                /\ oplog'[k] = <<>>
                /\ events'[k] = <<>>
                /\ tasks'[k].trace = <<>>
                /\ StorageUnchanged
       /\ IsCallOn("start", id) =>
            LET k == Len(tasks')
            IN  /\ events'[k] = <<[type |-> "project-error", projectId |-> id,
                                   error |-> "Project not found"]>>
                /\ tasks'[k].trace = <<>>
                /\ Settled(tasks'[k])
                /\ StorageUnchanged
       /\ IsPauseOn(id) =>
            /\ id \notin DOMAIN projects'
            /\ StorageUnchanged]_vars

\* startProject, resumeProject and pauseProject have each been called with
\* an unknown identifier.
C29_Witness ==
  \E id \in UnknownIds :
    /\ Len(tasks) = 2
    /\ tasks[1].projectId = id
    /\ tasks[2].projectId = id
    /\ {tasks[1].op, tasks[2].op} = {"start", "resume"}
    /\ pauses = 1
    /\ events[0][Len(events[0])].projectId = id
    /\ id \notin DOMAIN projects

\* The socket connected last for project id if it is open, or 0.
NewestOpen(id) ==
  LET mine == {s \in 1..Len(sockets) : sockets[s].projectId = id}
      last == CHOOSE s \in mine : \A x \in mine : x <= s
  IN  IF mine = {} THEN 0
      ELSE IF sockets[last].readyState = OPEN THEN last ELSE 0

\* e is an emit of an event that has a listener.
HasListener(e) ==
  /\ e.op = "emit"
  /\ e.type \in {"log", "progress", "agent-started", "agent-completed",
                 "project-completed"}

\* The message a listener sends for the log entry e.
MessageOf(e) == [f \in DOMAIN e \ {"op"} |-> e[f]]

\* The messages of the events call k emits in this step, in order.
RECURSIVE MessagesFrom(_, _)
MessagesFrom(k, n) ==
  IF n > Len(oplog'[k]) THEN <<>>
  ELSE (IF HasListener(oplog'[k][n]) THEN <<MessageOf(oplog'[k][n])>> ELSE <<>>)
         \o MessagesFrom(k, n + 1)

\* C30: as long as the socket connected last for a project is open, it is
\* the socket registered for the project, and it receives every event with
\* a listener that the project's loop emits.
C30_NewestSocketRegistered ==
  [][\A id \in ProjectIds :
       /\ NewestOpen(id)' # 0 =>
            /\ id \in DOMAIN wsClients'
            /\ wsClients'[id] = NewestOpen(id)'
       /\ \A k \in 1..Len(tasks') :
            (ActsNow(k) /\ tasks'[k].projectId = id /\ NewestOpen(id) # 0) =>
              sockets'[NewestOpen(id)].received
                = sockets[NewestOpen(id)].received
                    \o MessagesFrom(k, IF k \in DOMAIN oplog
                                         THEN Len(oplog[k]) + 1 ELSE 1)]_vars

====
